---- MODULE Spec2Model ----
(***************************************************************************)
(* A model of the core of typescript-rag-cli:                              *)
(*   chunkText                  src/src/services/dataService.ts            *)
(*   calculateL2Distance        src/src/bin.ts (utils/distance)            *)
(*   VectorIndex                src/src/models/vectorIndex.ts              *)
(*   getEmbeddingsWithProgress  src/src/services/embeddingService.ts and   *)
(*                              src/unnamed/part_000                       *)
(*   DocumentStore              src/src/models/documentStore.ts            *)
(*   the remove command         src/src/cli.ts                             *)
(* A string is a sequence of one-character strings; "" is << >>.           *)
(***************************************************************************)
EXTENDS Integers, Sequences, FiniteSets, TLC

VARIABLES
    pc,          \* position of the modelled call
    text,        \* chunkText: argument text
    chunkSize,   \* chunkText: argument chunkSize
    chunks,      \* chunkText: the returned array
    heap,        \* the number[] objects: heap[r] is the content of array r
    vectors,     \* VectorIndex.vectors: the references it holds, in order
    got,         \* << >>, or <<a>> with a the array getVectors returned last
    queryVector, \* search: argument queryVector
    k,           \* search: argument k
    result,      \* what the last call returned or threw
    ops,         \* number of mutations the caller of the index has made
    currentChunk, \* chunkText: the local currentChunk
    todo,        \* chunkText: the units the loops have still to visit
    lastStep,    \* chunkText: what the last loop iteration did
    variant,     \* getEmbeddingsWithProgress: which of its two versions runs
    input,       \* getEmbeddingsWithProgress: argument chunks
    inflight,    \* positions whose embedding request has not settled
    slots,       \* Promise.all: the values of the promises fulfilled so far
    embeddings,  \* getEmbeddingsWithProgress: the array it builds and returns
    completed,   \* getEmbeddingsWithProgress: the local completed
    batchStart,  \* getEmbeddingsWithProgress: the local i of the batch loop
    outOfOrder,  \* some request settled before one of a smaller position
    documents,   \* DocumentStore.documents: the Map of the running process
    disk,        \* the storage directory: its sub-directories and their files
    fresh,       \* the Map of a DocumentStore newly constructed on disk
    storeOp,     \* the last call or command made on the store
    storeOps,    \* number of calls and commands made
    firstCall,   \* VectorIndex: the first search made on the index, and its result
    removeCalls, \* number of calls of removeDocument made
    addCalls,    \* number of calls of addDocument made
    embedFailed  \* add command: the chunk whose embedding failed, 0 when none did

chunkVars == <<text, chunkSize, chunks>>
indexVars == <<heap, vectors, got, queryVector, k, result, ops>>
stepVars == <<currentChunk, todo, lastStep>>
embedVars == <<variant, input, inflight, slots, embeddings, completed,
               batchStart, outOfOrder>>
storeVars == <<documents, disk, fresh, storeOp, storeOps, removeCalls, addCalls,
               embedFailed>>
callVars == <<firstCall>>
restVars == <<stepVars, embedVars, storeVars, callVars>>
vars == <<pc, text, chunkSize, chunks, heap, vectors, got, queryVector, k, result,
          ops, currentChunk, todo, lastStep, variant, input, inflight, slots,
          embeddings, completed, batchStart, outOfOrder, documents, disk, fresh,
          storeOp, storeOps, removeCalls, firstCall, addCalls, embedFailed>>

(***************************************************************************)
(* Bounds of the model.                                                    *)
(***************************************************************************)
MaxLen == 5          \* longest text
MaxChunkSize == 4    \* largest chunkSize

\* Characters of each class the regular expressions of chunkText tell
\* apart: word characters, a sentence terminator, a blank, a line feed.
Alphabet == {"a", "b", ".", " ", "\n"}
ChunkSizes == -1..MaxChunkSize

RECURSIVE StringsOfLen(_)
StringsOfLen(n) ==
    IF n = 0 THEN {<< >>}
    ELSE {Append(s, c) : s \in StringsOfLen(n - 1), c \in Alphabet}

Texts == UNION {StringsOfLen(n) : n \in 0..MaxLen}

(***************************************************************************)
(* Character classes of the regular expressions.                           *)
(***************************************************************************)
\* \s
IsSpace(c) == c \in {" ", "\n"}
\* [.!?]
IsTerminator(c) == c \in {".", "!", "?"}

\* Last position of the maximal run of characters satisfying the class that
\* starts at position i (i - 1 when s[i] is not in the class): a greedy X*.
RECURSIVE SpaceRunEnd(_, _)
SpaceRunEnd(s, i) ==
    IF i <= Len(s) /\ IsSpace(s[i]) THEN SpaceRunEnd(s, i + 1) ELSE i - 1

RECURSIVE TerminatorRunEnd(_, _)
TerminatorRunEnd(s, i) ==
    IF i <= Len(s) /\ IsTerminator(s[i]) THEN TerminatorRunEnd(s, i + 1) ELSE i - 1

RECURSIVE PlainRunEnd(_, _)
PlainRunEnd(s, i) ==
    IF i <= Len(s) /\ ~IsTerminator(s[i]) THEN PlainRunEnd(s, i + 1) ELSE i - 1

(***************************************************************************)
(* text.split(/\n\s*\n/)                                                   *)
(***************************************************************************)
\* End of the match of /\n\s*\n/ starting exactly at position i, 0 if none:
\* \s* is greedy and backtracks to the last line feed of the run.
ParagraphBreakEnd(s, i) ==
    IF i <= Len(s) /\ s[i] = "\n"
    THEN LET e == SpaceRunEnd(s, i + 1)
             nl == {j \in (i + 1)..e : s[j] = "\n"}
         IN  IF nl = {} THEN 0 ELSE CHOOSE j \in nl : \A m \in nl : m <= j
    ELSE 0

\* String.prototype.split: p is the start of the current piece, q the
\* position where the next match is tried.
RECURSIVE SplitParagraphsFrom(_, _, _)
SplitParagraphsFrom(s, p, q) ==
    IF q > Len(s) THEN <<SubSeq(s, p, Len(s))>>
    ELSE LET e == ParagraphBreakEnd(s, q)
         IN  IF e # 0
             THEN <<SubSeq(s, p, q - 1)>> \o SplitParagraphsFrom(s, e + 1, e + 1)
             ELSE SplitParagraphsFrom(s, p, q + 1)

SplitParagraphs(s) == SplitParagraphsFrom(s, 1, 1)

(***************************************************************************)
(* paragraph.match(/[^.!?]+[.!?]+/g) || [paragraph]                        *)
(***************************************************************************)
\* The successive matches from position q on. A match cannot start on a
\* terminator; a run of other characters that reaches the end of the string
\* is followed by no terminator, so no match starts in it.
RECURSIVE MatchSentencesFrom(_, _)
MatchSentencesFrom(s, q) ==
    IF q > Len(s) THEN << >>
    ELSE IF IsTerminator(s[q]) THEN MatchSentencesFrom(s, q + 1)
    ELSE LET a == PlainRunEnd(s, q)
         IN  IF a = Len(s) THEN << >>
             ELSE LET b == TerminatorRunEnd(s, a + 1)
                  IN  <<SubSeq(s, q, b)>> \o MatchSentencesFrom(s, b + 1)

SentenceSplits(paragraph) ==
    LET m == MatchSentencesFrom(paragraph, 1)
    IN  IF m = << >> THEN <<paragraph>> ELSE m

(***************************************************************************)
(* sentence.split(/\s+/)                                                   *)
(***************************************************************************)
RECURSIVE SplitWordsFrom(_, _, _)
SplitWordsFrom(s, p, q) ==
    IF q > Len(s) THEN <<SubSeq(s, p, Len(s))>>
    ELSE IF IsSpace(s[q])
         THEN LET e == SpaceRunEnd(s, q)
              IN  <<SubSeq(s, p, q - 1)>> \o SplitWordsFrom(s, e + 1, e + 1)
         ELSE SplitWordsFrom(s, p, q + 1)

SplitWords(s) == SplitWordsFrom(s, 1, 1)

(***************************************************************************)
(* The loops of chunkText. st is [chunks, currentChunk].                   *)
(***************************************************************************)
\* the accumulator reset without being pushed
FlushDropping(st) == [chunks |-> st.chunks, currentChunk |-> << >>]

Flush(st) == [chunks |-> Append(st.chunks, st.currentChunk), currentChunk |-> << >>]

\* currentChunk += (currentChunk ? sep : '') + unit
AppendUnit(st, sep, unit) ==
    [st EXCEPT !.currentChunk =
        (IF st.currentChunk # << >> THEN st.currentChunk \o sep ELSE << >>) \o unit]

\* the test currentChunk.length > 0 left out
ParagraphOverflowsWhenEmpty(st, paragraph, size) ==
    Len(st.currentChunk) + Len(paragraph) > size

\* line 244
ParagraphOverflows(st, paragraph, size) ==
    Len(st.currentChunk) + Len(paragraph) > size /\ Len(st.currentChunk) > 0

\* line 254
SentenceOverflows(st, sentence, size) ==
    Len(st.currentChunk) + Len(sentence) > size /\ Len(st.currentChunk) > 0

\* a word that fits exactly taken as overflowing
WordOverflowsOrFits(st, word, size) ==
    Len(st.currentChunk) + Len(word) + 1 >= size /\ Len(st.currentChunk) > 0

\* line 263
WordOverflows(st, word, size) ==
    Len(st.currentChunk) + Len(word) + 1 > size /\ Len(st.currentChunk) > 0

\* a paragraph of exactly chunkSize characters taken for too big
ParagraphTooBigOrEqual(paragraph, size) == Len(paragraph) >= size

\* line 250
ParagraphTooBig(paragraph, size) == Len(paragraph) > size

\* line 259
SentenceTooBig(sentence, size) == Len(sentence) > size

WordStep(st, word, size) ==
    LET s1 == IF WordOverflows(st, word, size) THEN Flush(st) ELSE st
    IN  AppendUnit(s1, <<" ">>, word)

RECURSIVE WordLoop(_, _, _, _)
WordLoop(st, words, i, size) ==
    IF i > Len(words) THEN st
    ELSE WordLoop(WordStep(st, words[i], size), words, i + 1, size)

SentenceStep(st, sentence, size) ==
    LET s1 == IF SentenceOverflows(st, sentence, size) THEN Flush(st) ELSE st
    IN  IF SentenceTooBig(sentence, size)
        THEN WordLoop(s1, SplitWords(sentence), 1, size)
        ELSE AppendUnit(s1, <<" ">>, sentence)

RECURSIVE SentenceLoop(_, _, _, _)
SentenceLoop(st, sentences, i, size) ==
    IF i > Len(sentences) THEN st
    ELSE SentenceLoop(SentenceStep(st, sentences[i], size), sentences, i + 1, size)

ParagraphStep(st, paragraph, size) ==
    LET s1 == IF ParagraphOverflows(st, paragraph, size) THEN Flush(st) ELSE st
    IN  IF ParagraphTooBig(paragraph, size)
        THEN SentenceLoop(s1, SentenceSplits(paragraph), 1, size)
        ELSE AppendUnit(s1, <<"\n", "\n">>, paragraph)

RECURSIVE ParagraphLoop(_, _, _, _)
ParagraphLoop(st, paragraphs, i, size) ==
    IF i > Len(paragraphs) THEN st
    ELSE ParagraphLoop(ParagraphStep(st, paragraphs[i], size), paragraphs, i + 1, size)

\* the last chunk pushed without the test of line 280
ChunkTextAlwaysPushing(t, size) ==
    LET st == ParagraphLoop([chunks |-> << >>, currentChunk |-> << >>],
                            SplitParagraphs(t), 1, size)
    IN  Append(st.chunks, st.currentChunk)

\* chunkText(text, chunkSize): the returned array. No path of the function
\* throws, whatever the value of chunkSize.
ChunkText(t, size) ==
    LET st == ParagraphLoop([chunks |-> << >>, currentChunk |-> << >>],
                            SplitParagraphs(t), 1, size)
    IN  IF Len(st.currentChunk) > 0 THEN Append(st.chunks, st.currentChunk)
        ELSE st.chunks

(***************************************************************************)
(* calculateL2Distance. Numbers are fixed-point: a distance or a score x   *)
(* is held as the integer floor(x * Prec).                                 *)
(***************************************************************************)
MaxVecs == 3         \* most vectors handed to the constructor
MaxOps == 2          \* most mutations made by the caller of an index
Prec == 1000         \* fixed-point resolution of distances and scores

Coord == {0, 1}
Dims == {1, 2}
Vectors == UNION {[1..d -> Coord] : d \in Dims}
Queries == Vectors \cup {<< >>}
Ks == -2..(MaxVecs + 1)

RECURSIVE ListsOfLen(_)
ListsOfLen(n) ==
    IF n = 0 THEN {<< >>}
    ELSE {Append(l, v) : l \in ListsOfLen(n - 1), v \in Vectors}

Lists == UNION {ListsOfLen(n) : n \in 0..MaxVecs}

Min(a, b) == IF a <= b THEN a ELSE b
Max(a, b) == IF a >= b THEN a ELSE b

\* floor(sqrt(n)) for lo <= floor(sqrt(n)) <= hi
RECURSIVE SqrtBetween(_, _, _)
SqrtBetween(n, lo, hi) ==
    IF lo >= hi THEN lo
    ELSE LET mid == (lo + hi + 1) \div 2
         IN  IF mid * mid <= n THEN SqrtBetween(n, mid, hi)
             ELSE SqrtBetween(n, lo, mid - 1)

\* Math.sqrt(x) of an integer x
Sqrt(x) == SqrtBetween(x * Prec * Prec, 0, (x + 1) * Prec)

\* the loop of lines 24-28: sum += diff * diff
RECURSIVE SumSquares(_, _, _)
SumSquares(a, b, i) ==
    IF i > Len(a) THEN 0
    ELSE (a[i] - b[i]) * (a[i] - b[i]) + SumSquares(a, b, i + 1)

NoResult == [kind |-> "none", value |-> << >>]
Thrown == [kind |-> "throw", value |-> << >>]
Ok(v) == [kind |-> "ok", value |-> v]

\* a check that only refuses a first vector longer than the second
DimensionsDifferFirstLonger(a, b) == Len(a) > Len(b)

\* 'Vectors must have the same dimensions'
DimensionsDiffer(a, b) == Len(a) # Len(b)

\* no check: the longer vector silently cut to the length of the shorter
CalculateL2DistanceTruncating(a, b) ==
    LET n == Min(Len(a), Len(b))
    IN  Ok(Sqrt(SumSquares(SubSeq(a, 1, n), SubSeq(b, 1, n), 1)))

CalculateL2Distance(a, b) ==
    IF DimensionsDiffer(a, b) THEN Thrown ELSE Ok(Sqrt(SumSquares(a, b, 1)))

(***************************************************************************)
(* VectorIndex.                                                            *)
(***************************************************************************)
\* the comparator with its operands swapped: b[0] - a[0]
CompareDescending(a, b) == b[1] - a[1]

\* the comparator (a, b) => a[0] - b[0] on [distance, index] pairs
Compare(a, b) == a[1] - b[1]

\* an unstable sort: an element goes before the elements it compares equal to
RECURSIVE InsertSortedUnstable(_, _)
InsertSortedUnstable(sorted, x) ==
    IF sorted = << >> THEN <<x>>
    ELSE LET last == sorted[Len(sorted)]
         IN  IF last[1] - x[1] < 0 THEN Append(sorted, x)
             ELSE Append(InsertSortedUnstable(SubSeq(sorted, 1, Len(sorted) - 1), x), last)

\* Array.prototype.sort is stable (ECMAScript 2019; engines: node >= 14):
\* an element goes after every element already placed that does not
\* compare greater.
RECURSIVE InsertSorted(_, _)
InsertSorted(sorted, x) ==
    IF sorted = << >> THEN <<x>>
    ELSE LET last == sorted[Len(sorted)]
         IN  IF Compare(last, x) <= 0 THEN Append(sorted, x)
             ELSE Append(InsertSorted(SubSeq(sorted, 1, Len(sorted) - 1), x), last)

RECURSIVE SortFrom(_, _, _)
SortFrom(sorted, s, i) ==
    IF i > Len(s) THEN sorted
    ELSE SortFrom(InsertSorted(sorted, s[i]), s, i + 1)

Sort(s) == SortFrom(<< >>, s, 1)

\* Array.prototype.slice(0, end): a negative end counts from the end
Slice(s, end) ==
    LET e == IF end < 0 THEN Max(Len(s) + end, 0) ELSE Min(end, Len(s))
    IN  SubSeq(s, 1, e)

\* this.vectors.map((vector, index) => [calculateL2Distance(q, vector), index]):
\* the distance of every stored vector is computed, in order, before
\* anything is sorted or sliced; indices are 0-based.
Distances(vs, q) == [i \in 1..Len(vs) |-> CalculateL2Distance(q, vs[i])]

\* an eager check that reads this.vectors[0] and fails when there is none
MapThrowsOnEmpty(ds) == ds = << >> \/ \E i \in 1..Len(ds) : ds[i].kind = "throw"

MapThrows(ds) == \E i \in 1..Len(ds) : ds[i].kind = "throw"

\* indices counted from 1
PairsOneBased(ds) == [i \in 1..Len(ds) |-> <<ds[i].value, i>>]

Pairs(ds) == [i \in 1..Len(ds) |-> <<ds[i].value, i - 1>>]

\* the reciprocal forgotten: 1 + distance
ScoreNotInverted(d) == Prec + d

\* 1 / (1 + distance)
Score(d) == (Prec * Prec) \div (Prec + d)

Search(vs, q, kk) ==
    LET ds == Distances(vs, q)
    IN  IF MapThrows(ds) THEN Thrown
        ELSE LET top == Slice(Sort(Pairs(ds)), kk)
             IN  Ok([i \in 1..Len(top) |-> top[i][2]])

\* slice(0, k) taken before the sort
SearchWithScoresSliceFirst(vs, q, kk) ==
    LET ds == Distances(vs, q)
    IN  IF MapThrows(ds) THEN Thrown
        ELSE LET top == Sort(Slice(Pairs(ds), kk))
             IN  Ok([i \in 1..Len(top) |->
                        [index |-> top[i][2], score |-> Score(top[i][1])]])

SearchWithScores(vs, q, kk) ==
    LET ds == Distances(vs, q)
    IN  IF MapThrows(ds) THEN Thrown
        ELSE LET top == Slice(Sort(Pairs(ds)), kk)
             IN  Ok([i \in 1..Len(top) |->
                        [index |-> top[i][2], score |-> Score(top[i][1])]])

\* The content of the arrays an array of references holds
Deref(refs) == [i \in 1..Len(refs) |-> heap[refs[i]]]

\* new VectorIndex(list): this.vectors = vectors keeps the caller's array
\* and the caller's inner arrays; array i of the list is heap[i].
Constructed(list) ==
    /\ heap = list
    /\ vectors = [i \in 1..Len(list) |-> i]
    /\ got = << >>
    /\ result = NoResult

\* no chunkText loop running
NoStep == [level |-> "none", unit |-> << >>, before |-> << >>, flushed |-> FALSE]

StepIdle ==
    /\ currentChunk = << >>
    /\ todo = << >>
    /\ lastStep = NoStep

\* no getEmbeddingsWithProgress call made
EmbedIdle ==
    /\ variant = "none"
    /\ input = << >>
    /\ inflight = {}
    /\ slots = << >>
    /\ embeddings = << >>
    /\ completed = 0
    /\ batchStart = 0
    /\ outOfOrder = FALSE

EmptyMap == [n \in {} |-> 0]

NoOp == [op |-> "none", name |-> << >>, confirmed |-> FALSE, outcome |-> "none"]

\* no DocumentStore constructed
StoreIdle ==
    /\ documents = EmptyMap
    /\ disk = EmptyMap
    /\ fresh = EmptyMap
    /\ storeOp = NoOp
    /\ storeOps = 0
    /\ removeCalls = 0
    /\ addCalls = 0
    /\ embedFailed = 0

\* no search made yet
NoCall == [method |-> "none", queryVector |-> << >>, k |-> 0, result |-> NoResult,
           between |-> FALSE]

CallIdle == firstCall = NoCall

RestIdle == StepIdle /\ EmbedIdle /\ StoreIdle /\ CallIdle

(***************************************************************************)
(* Specification of a call of chunkText.                                   *)
(***************************************************************************)
IndexIdle ==
    /\ heap = << >>
    /\ vectors = << >>
    /\ got = << >>
    /\ queryVector = << >>
    /\ k = 0
    /\ result = NoResult
    /\ ops = 0

ChunkInit ==
    /\ pc = "call"
    /\ text \in Texts
    /\ chunkSize \in ChunkSizes
    /\ chunks = << >>
    /\ IndexIdle
    /\ RestIdle

ChunkTextCall ==
    /\ pc = "call"
    /\ chunks' = ChunkText(text, chunkSize)
    /\ pc' = "returned"
    /\ UNCHANGED <<text, chunkSize>>
    /\ UNCHANGED indexVars
    /\ UNCHANGED restVars

ChunkNext == ChunkTextCall

SpecChunk == ChunkInit /\ [][ChunkNext]_vars

(***************************************************************************)
(* Specification of a search on a freshly built index.                     *)
(***************************************************************************)
ChunkIdle ==
    /\ text = << >>
    /\ chunkSize = 0
    /\ chunks = << >>

SearchInit ==
    /\ pc = "built"
    /\ \E list \in Lists : Constructed(list)
    /\ queryVector \in Queries
    /\ k \in Ks
    /\ ops = 0
    /\ ChunkIdle
    /\ RestIdle

SearchCall ==
    /\ pc = "built"
    /\ result' = Search(Deref(vectors), queryVector, k)
    /\ pc' = "searched"
    /\ UNCHANGED <<heap, vectors, got, queryVector, k, ops>>
    /\ UNCHANGED chunkVars
    /\ UNCHANGED restVars

SearchWithScoresCall ==
    /\ pc = "built"
    /\ result' = SearchWithScores(Deref(vectors), queryVector, k)
    /\ pc' = "scored"
    /\ UNCHANGED <<heap, vectors, got, queryVector, k, ops>>
    /\ UNCHANGED chunkVars
    /\ UNCHANGED restVars

SearchNext == SearchCall \/ SearchWithScoresCall

SpecSearch == SearchInit /\ [][SearchNext]_vars

(***************************************************************************)
(* Specification of an index whose caller reads the vectors back with      *)
(* getVectors and mutates what it was given.                               *)
(***************************************************************************)
IndexPcs == {"constructed", "getVectors", "gotPush", "gotPop", "gotReplace",
             "gotSetComponent"}

IndexInit ==
    /\ pc = "constructed"
    /\ \E list \in Lists : Constructed(list)
    /\ queryVector = << >>
    /\ k = 0
    /\ ops = 0
    /\ ChunkIdle
    /\ RestIdle

\* return [...this.vectors]: a new outer array holding the same inner arrays
GetVectors ==
    /\ pc \in IndexPcs
    /\ got' = <<vectors>>
    /\ pc' = "getVectors"
    /\ UNCHANGED <<heap, vectors, queryVector, k, result, ops>>
    /\ UNCHANGED chunkVars
    /\ UNCHANGED restVars

\* returned.push(v)
GotPush(v) ==
    /\ pc \in IndexPcs /\ got # << >> /\ ops < MaxOps
    /\ heap' = Append(heap, v)
    /\ got' = <<Append(got[1], Len(heap) + 1)>>
    /\ pc' = "gotPush"
    /\ ops' = ops + 1
    /\ UNCHANGED <<vectors, queryVector, k, result>>
    /\ UNCHANGED chunkVars
    /\ UNCHANGED restVars

\* returned.pop()
GotPop ==
    /\ pc \in IndexPcs /\ got # << >> /\ ops < MaxOps
    /\ got[1] # << >>
    /\ got' = <<SubSeq(got[1], 1, Len(got[1]) - 1)>>
    /\ pc' = "gotPop"
    /\ ops' = ops + 1
    /\ UNCHANGED <<heap, vectors, queryVector, k, result>>
    /\ UNCHANGED chunkVars
    /\ UNCHANGED restVars

\* returned[i] = v
GotReplace(i, v) ==
    /\ pc \in IndexPcs /\ got # << >> /\ ops < MaxOps
    /\ i \in 1..Len(got[1])
    /\ heap' = Append(heap, v)
    /\ got' = <<[got[1] EXCEPT ![i] = Len(heap) + 1]>>
    /\ pc' = "gotReplace"
    /\ ops' = ops + 1
    /\ UNCHANGED <<vectors, queryVector, k, result>>
    /\ UNCHANGED chunkVars
    /\ UNCHANGED restVars

\* returned[i][j] = c
GotSetComponent(i, j, c) ==
    /\ pc \in IndexPcs /\ got # << >> /\ ops < MaxOps
    /\ i \in 1..Len(got[1])
    /\ j \in 1..Len(heap[got[1][i]])
    /\ heap' = [heap EXCEPT ![got[1][i]][j] = c]
    /\ pc' = "gotSetComponent"
    /\ ops' = ops + 1
    /\ UNCHANGED <<vectors, got, queryVector, k, result>>
    /\ UNCHANGED chunkVars
    /\ UNCHANGED restVars

IndexNext ==
    \/ GetVectors
    \/ \E v \in Vectors : GotPush(v)
    \/ GotPop
    \/ \E i \in 1..(MaxVecs + MaxOps), v \in Vectors : GotReplace(i, v)
    \/ \E i \in 1..(MaxVecs + MaxOps), j \in Dims, c \in Coord : GotSetComponent(i, j, c)

SpecIndex == IndexInit /\ [][IndexNext]_vars

(***************************************************************************)
(* Specification of an index whose caller goes on mutating the list it     *)
(* passed to the constructor. The constructor stores that very array, so   *)
(* the list and this.vectors are one object: what the caller does to the   *)
(* list is done to vectors.                                                *)
(***************************************************************************)
ListOps == {"listPush", "listPop", "listReplace", "listSetComponent"}

\* list.push(v)
ListPush(v) ==
    /\ pc \in {"constructed"} \cup ListOps /\ ops < MaxOps
    /\ heap' = Append(heap, v)
    /\ vectors' = Append(vectors, Len(heap) + 1)
    /\ pc' = "listPush"
    /\ ops' = ops + 1
    /\ UNCHANGED <<got, queryVector, k, result>>
    /\ UNCHANGED chunkVars
    /\ UNCHANGED restVars

\* list.pop()
ListPop ==
    /\ pc \in {"constructed"} \cup ListOps /\ ops < MaxOps
    /\ vectors # << >>
    /\ vectors' = SubSeq(vectors, 1, Len(vectors) - 1)
    /\ pc' = "listPop"
    /\ ops' = ops + 1
    /\ UNCHANGED <<heap, got, queryVector, k, result>>
    /\ UNCHANGED chunkVars
    /\ UNCHANGED restVars

\* list[i] = v
ListReplace(i, v) ==
    /\ pc \in {"constructed"} \cup ListOps /\ ops < MaxOps
    /\ i \in 1..Len(vectors)
    /\ heap' = Append(heap, v)
    /\ vectors' = [vectors EXCEPT ![i] = Len(heap) + 1]
    /\ pc' = "listReplace"
    /\ ops' = ops + 1
    /\ UNCHANGED <<got, queryVector, k, result>>
    /\ UNCHANGED chunkVars
    /\ UNCHANGED restVars

\* list[i][j] = c
ListSetComponent(i, j, c) ==
    /\ pc \in {"constructed"} \cup ListOps /\ ops < MaxOps
    /\ i \in 1..Len(vectors)
    /\ j \in 1..Len(heap[vectors[i]])
    /\ heap' = [heap EXCEPT ![vectors[i]][j] = c]
    /\ pc' = "listSetComponent"
    /\ ops' = ops + 1
    /\ UNCHANGED <<vectors, got, queryVector, k, result>>
    /\ UNCHANGED chunkVars
    /\ UNCHANGED restVars

ListNext ==
    \/ \E v \in Vectors : ListPush(v)
    \/ ListPop
    \/ \E i \in 1..(MaxVecs + MaxOps), v \in Vectors : ListReplace(i, v)
    \/ \E i \in 1..(MaxVecs + MaxOps), j \in Dims, c \in Coord : ListSetComponent(i, j, c)

SpecList == IndexInit /\ [][ListNext]_vars

(***************************************************************************)
(* Specification of an index searched again and again: any number of       *)
(* calls of search and searchWithScores on one index. firstCall keeps the  *)
(* first call and what it returned.                                        *)
(***************************************************************************)
MaxRepeatVecs == 2   \* longest list of the index searched repeatedly

RepeatLists == {list \in Lists : Len(list) <= MaxRepeatVecs}
RepeatQueries == {<<0>>, <<1>>, <<0, 1>>}
RepeatKs == {0, 1, MaxRepeatVecs}
RepeatPcs == {"indexed", "search", "searchWithScores"}

\* distances.sort(...) called on this.vectors itself: the stored order
\* becomes the order of the distances
VectorsSortedInPlace(refs, q) ==
    LET ds == Distances(Deref(refs), q)
    IN  IF MapThrows(ds) THEN refs
        ELSE LET sorted == Sort(Pairs(ds))
             IN  [i \in 1..Len(refs) |-> refs[sorted[i][2] + 1]]

\* this.vectors after a search: map returns a new array, and it is that
\* array which sort reorders and slice reads; this.vectors is only read
VectorsAfterSearch(refs, q) == refs

Called(method, q, kk, res) ==
    IF firstCall = NoCall
    THEN [method |-> method, queryVector |-> q, k |-> kk, result |-> res,
          between |-> FALSE]
    ELSE [firstCall EXCEPT !.between =
             @ \/ <<method, q, kk>> #
                  <<firstCall.method, firstCall.queryVector, firstCall.k>>]

RepeatInit ==
    /\ pc = "indexed"
    /\ \E list \in RepeatLists : Constructed(list)
    /\ queryVector = << >>
    /\ k = 0
    /\ ops = 0
    /\ ChunkIdle
    /\ RestIdle

RepeatSearch(q, kk) ==
    /\ pc \in RepeatPcs
    /\ queryVector' = q
    /\ k' = kk
    /\ result' = Search(Deref(vectors), q, kk)
    /\ vectors' = VectorsAfterSearch(vectors, q)
    /\ firstCall' = Called("search", q, kk, result')
    /\ pc' = "search"
    /\ UNCHANGED <<heap, got, ops>>
    /\ UNCHANGED chunkVars
    /\ UNCHANGED <<stepVars, embedVars, storeVars>>

RepeatSearchWithScores(q, kk) ==
    /\ pc \in RepeatPcs
    /\ queryVector' = q
    /\ k' = kk
    /\ result' = SearchWithScores(Deref(vectors), q, kk)
    /\ vectors' = VectorsAfterSearch(vectors, q)
    /\ firstCall' = Called("searchWithScores", q, kk, result')
    /\ pc' = "searchWithScores"
    /\ UNCHANGED <<heap, got, ops>>
    /\ UNCHANGED chunkVars
    /\ UNCHANGED <<stepVars, embedVars, storeVars>>

RepeatNext ==
    \/ \E q \in RepeatQueries, kk \in RepeatKs : RepeatSearch(q, kk)
    \/ \E q \in RepeatQueries, kk \in RepeatKs : RepeatSearchWithScores(q, kk)

SpecRepeat == RepeatInit /\ [][RepeatNext]_vars

(***************************************************************************)
(* Specification of chunkText taken one loop iteration at a time. todo     *)
(* holds the units still to visit, in the order the nested loops visit     *)
(* them: an iteration that descends to the loop below puts the units of    *)
(* that loop in front of what is left of its own.                          *)
(***************************************************************************)
\* the units of an inner loop put back as paragraphs
UnitsAsParagraphs(level, us) ==
    [i \in 1..Len(us) |-> [level |-> "paragraph", unit |-> us[i]]]

Units(level, us) == [i \in 1..Len(us) |-> [level |-> level, unit |-> us[i]]]

\* what is put between the accumulator and a unit appended to it
Separator(level) == IF level = "paragraph" THEN <<"\n", "\n">> ELSE <<" ">>

Acc == [chunks |-> chunks, currentChunk |-> currentChunk]

\* lines 236-240: the state on entry of the paragraph loop
StepInit ==
    /\ pc = "looping"
    /\ text \in Texts
    /\ chunkSize \in ChunkSizes
    /\ chunks = << >>
    /\ currentChunk = << >>
    /\ todo = Units("paragraph", SplitParagraphs(text))
    /\ lastStep = NoStep
    /\ IndexIdle
    /\ EmbedIdle
    /\ StoreIdle
    /\ CallIdle

\* lines 242-277 without the sentence loop
ParagraphIteration ==
    /\ pc = "looping" /\ todo # << >> /\ Head(todo).level = "paragraph"
    /\ LET paragraph == Head(todo).unit
           flushes == ParagraphOverflows(Acc, paragraph, chunkSize)
           s1 == IF flushes THEN Flush(Acc) ELSE Acc
           descends == ParagraphTooBig(paragraph, chunkSize)
           s2 == IF descends THEN s1
                 ELSE AppendUnit(s1, Separator("paragraph"), paragraph)
       IN  /\ chunks' = s2.chunks
           /\ currentChunk' = s2.currentChunk
           /\ todo' = (IF descends THEN Units("sentence", SentenceSplits(paragraph))
                       ELSE << >>) \o Tail(todo)
           /\ lastStep' = [level |-> "paragraph", unit |-> paragraph,
                           before |-> currentChunk, flushed |-> flushes]
    /\ UNCHANGED <<pc, text, chunkSize>>
    /\ UNCHANGED <<indexVars, embedVars, storeVars, callVars>>

\* lines 253-273 without the word loop
SentenceIteration ==
    /\ pc = "looping" /\ todo # << >> /\ Head(todo).level = "sentence"
    /\ LET sentence == Head(todo).unit
           flushes == SentenceOverflows(Acc, sentence, chunkSize)
           s1 == IF flushes THEN Flush(Acc) ELSE Acc
           descends == SentenceTooBig(sentence, chunkSize)
           s2 == IF descends THEN s1
                 ELSE AppendUnit(s1, Separator("sentence"), sentence)
       IN  /\ chunks' = s2.chunks
           /\ currentChunk' = s2.currentChunk
           /\ todo' = (IF descends THEN Units("word", SplitWords(sentence))
                       ELSE << >>) \o Tail(todo)
           /\ lastStep' = [level |-> "sentence", unit |-> sentence,
                           before |-> currentChunk, flushed |-> flushes]
    /\ UNCHANGED <<pc, text, chunkSize>>
    /\ UNCHANGED <<indexVars, embedVars, storeVars, callVars>>

\* lines 262-269
WordIteration ==
    /\ pc = "looping" /\ todo # << >> /\ Head(todo).level = "word"
    /\ LET word == Head(todo).unit
           flushes == WordOverflows(Acc, word, chunkSize)
           s1 == IF flushes THEN Flush(Acc) ELSE Acc
           s2 == AppendUnit(s1, Separator("word"), word)
       IN  /\ chunks' = s2.chunks
           /\ currentChunk' = s2.currentChunk
           /\ todo' = Tail(todo)
           /\ lastStep' = [level |-> "word", unit |-> word,
                           before |-> currentChunk, flushed |-> flushes]
    /\ UNCHANGED <<pc, text, chunkSize>>
    /\ UNCHANGED <<indexVars, embedVars, storeVars, callVars>>

\* lines 279-284
ReturnChunks ==
    /\ pc = "looping" /\ todo = << >>
    /\ chunks' = IF Len(currentChunk) > 0 THEN Append(chunks, currentChunk)
                 ELSE chunks
    /\ pc' = "returned"
    /\ UNCHANGED <<text, chunkSize, currentChunk, todo, lastStep>>
    /\ UNCHANGED <<indexVars, embedVars, storeVars, callVars>>

StepNext ==
    \/ ParagraphIteration
    \/ SentenceIteration
    \/ WordIteration
    \/ ReturnChunks

SpecChunkSteps == StepInit /\ [][StepNext]_vars

MaxFairLen == 4      \* longest text of the calls followed to their return

StepFairInit == StepInit /\ Len(text) <= MaxFairLen

\* chunkText is straight-line synchronous code: an iteration that can run
\* does run
SpecChunkStepsFair == StepFairInit /\ [][StepNext]_vars /\ WF_vars(StepNext)

(***************************************************************************)
(* Specification of getEmbeddingsWithProgress, in its two versions:        *)
(*   "all"      src/src/services/embeddingService.ts, one Promise.all over *)
(*              every chunk;                                               *)
(*   "batched"  src/unnamed/part_000, a Promise.all per batch of batchSize *)
(*              chunks, one batch after the other.                         *)
(* The requests of one Promise.all are outstanding together and settle in  *)
(* any order. Positions are counted from 1.                                *)
(***************************************************************************)
MaxChunks == 6       \* most chunks handed to getEmbeddingsWithProgress
BatchSize == 5       \* const batchSize = 5

EmbedChunks == {<<"a">>, <<"b">>}

RECURSIVE ChunkListsOfLen(_)
ChunkListsOfLen(n) ==
    IF n = 0 THEN {<< >>}
    ELSE {Append(l, c) : l \in ChunkListsOfLen(n - 1), c \in EmbedChunks}

ChunkLists == UNION {ChunkListsOfLen(n) : n \in 0..MaxChunks}

\* res.data[0].embedding of the response to the request made for chunk
Response(chunk) == IF chunk = <<"a">> THEN <<1, 0>> ELSE <<0, 1>>

\* the place of the result array of Promise.all that has no value yet
Pending == << >>

AllPending(n) == [j \in 1..n |-> Pending]

\* the first place that has no value yet
FirstPending(values) ==
    CHOOSE j \in 1..Len(values) :
        values[j] = Pending /\ \A h \in 1..(j - 1) : values[h] # Pending

\* each value put at the first free place, in the order the requests settle
SettleInArrivalOrder(values, j, v) == [values EXCEPT ![FirstPending(values)] = v]

\* Promise.all: the value of the j-th promise is element j of the result
Settle(values, j, v) == [values EXCEPT ![j] = v]

EmbedInit ==
    /\ pc = "embedding"
    /\ variant \in {"all", "batched"}
    /\ input \in ChunkLists
    /\ inflight = {}
    /\ slots = << >>
    /\ embeddings = << >>
    /\ completed = 0
    /\ batchStart = 0
    /\ outOfOrder = FALSE
    /\ ChunkIdle
    /\ IndexIdle
    /\ StepIdle
    /\ StoreIdle
    /\ CallIdle

\* chunks.map(async (chunk) => ...): a request started for every chunk
StartAll ==
    /\ pc = "embedding" /\ variant = "all"
    /\ inflight' = 1..Len(input)
    /\ slots' = AllPending(Len(input))
    /\ pc' = "awaiting"
    /\ UNCHANGED <<variant, input, embeddings, completed, batchStart, outOfOrder>>
    /\ UNCHANGED <<chunkVars, indexVars, stepVars, storeVars, callVars>>

\* batch = chunks.slice(i, i + batchSize); batch.map(...)
StartBatch ==
    /\ pc = "embedding" /\ variant = "batched"
    /\ batchStart < Len(input)
    /\ LET end == Min(batchStart + BatchSize, Len(input))
       IN  /\ inflight' = (batchStart + 1)..end
           /\ slots' = AllPending(end - batchStart)
    /\ pc' = "awaiting"
    /\ UNCHANGED <<variant, input, embeddings, completed, batchStart, outOfOrder>>
    /\ UNCHANGED <<chunkVars, indexVars, stepVars, storeVars, callVars>>

\* the request made for the chunk at position p is answered
Fulfil(p) ==
    /\ pc = "awaiting" /\ p \in inflight
    /\ slots' = Settle(slots, p - batchStart, Response(input[p]))
    /\ inflight' = inflight \ {p}
    /\ completed' = IF variant = "all" THEN completed + 1 ELSE completed
    /\ outOfOrder' = (outOfOrder \/ \E q \in inflight : q < p)
    /\ UNCHANGED <<pc, variant, input, embeddings, batchStart>>
    /\ UNCHANGED <<chunkVars, indexVars, stepVars, storeVars, callVars>>

\* the request made for the chunk at position p fails: Promise.all rejects,
\* the catch block rethrows and nothing is returned
Reject(p) ==
    /\ pc = "awaiting" /\ p \in inflight
    /\ inflight' = inflight \ {p}
    /\ pc' = "failed"
    /\ UNCHANGED <<variant, input, slots, embeddings, completed, batchStart,
                   outOfOrder>>
    /\ UNCHANGED <<chunkVars, indexVars, stepVars, storeVars, callVars>>

\* "all": Promise.all fulfilled, return embeddings
AllSettled ==
    /\ pc = "awaiting" /\ variant = "all" /\ inflight = {}
    /\ embeddings' = slots
    /\ pc' = "embedded"
    /\ UNCHANGED <<variant, input, inflight, slots, completed, batchStart,
                   outOfOrder>>
    /\ UNCHANGED <<chunkVars, indexVars, stepVars, storeVars, callVars>>

\* "batched": Promise.all of the batch fulfilled, its results pushed
BatchSettled ==
    /\ pc = "awaiting" /\ variant = "batched" /\ inflight = {}
    /\ completed' = completed + Len(slots)
    /\ embeddings' = embeddings \o slots
    /\ batchStart' = batchStart + BatchSize
    /\ pc' = "embedding"
    /\ UNCHANGED <<variant, input, inflight, slots, outOfOrder>>
    /\ UNCHANGED <<chunkVars, indexVars, stepVars, storeVars, callVars>>

\* "batched": the loop is over, return embeddings
ReturnEmbeddings ==
    /\ pc = "embedding" /\ variant = "batched"
    /\ batchStart >= Len(input)
    /\ pc' = "embedded"
    /\ UNCHANGED embedVars
    /\ UNCHANGED <<chunkVars, indexVars, stepVars, storeVars, callVars>>

EmbedNext ==
    \/ StartAll
    \/ StartBatch
    \/ \E p \in 1..MaxChunks : Fulfil(p)
    \/ \E p \in 1..MaxChunks : Reject(p)
    \/ AllSettled
    \/ BatchSettled
    \/ ReturnEmbeddings

SpecEmbed == EmbedInit /\ [][EmbedNext]_vars

(***************************************************************************)
(* JSON.stringify(value, null, 2) and JSON.parse, as documentStore.ts uses *)
(* them. A JSON value is a record: t tells number, string, array or object *)
(* apart, n is the number, s the string, a the elements of the array or    *)
(* the member values of the object, k the member names of the object.      *)
(* Numbers are integers. A file is a sequence of bytes; a byte below 128   *)
(* is written as its character.                                            *)
(***************************************************************************)
JNum(n) == [t |-> "num", n |-> n, s |-> << >>, a |-> << >>, k |-> << >>]
JStr(s) == [t |-> "str", n |-> 0, s |-> s, a |-> << >>, k |-> << >>]
JArr(a) == [t |-> "arr", n |-> 0, s |-> << >>, a |-> a, k |-> << >>]
JObj(keys, values) == [t |-> "obj", n |-> 0, s |-> << >>, a |-> values, k |-> keys]

Digits == <<"0", "1", "2", "3", "4", "5", "6", "7", "8", "9">>

IsDigit(c) == \E d \in 1..10 : Digits[d] = c

DigitValue(c) == (CHOOSE d \in 1..10 : Digits[d] = c) - 1

RECURSIVE NumChars(_)
NumChars(n) ==
    IF n < 0 THEN <<"-">> \o NumChars(-n)
    ELSE IF n < 10 THEN <<Digits[n + 1]>>
    ELSE NumChars(n \div 10) \o <<Digits[(n % 10) + 1]>>

EscapeChar(c) ==
    IF c = "\"" THEN <<"\\", "\"">>
    ELSE IF c = "\\" THEN <<"\\", "\\">>
    ELSE IF c = "\n" THEN <<"\\", "n">>
    ELSE <<c>>

\* the sequences ss[lo], ..., ss[hi] one after the other
RECURSIVE FlattenRange(_, _, _)
FlattenRange(ss, lo, hi) ==
    IF lo > hi THEN << >>
    ELSE IF lo = hi THEN ss[lo]
    ELSE LET mid == (lo + hi) \div 2
         IN  FlattenRange(ss, lo, mid) \o FlattenRange(ss, mid + 1, hi)

Flatten(ss) == FlattenRange(ss, 1, Len(ss))

Escape(s) == Flatten([i \in 1..Len(s) |-> EscapeChar(s[i])])

Quote(s) == <<"\"">> \o Escape(s) \o <<"\"">>

Indent(depth) == [j \in 1..(2 * depth) |-> " "]

RECURSIVE Stringify(_, _)
RECURSIVE StringifyItems(_, _, _)
\* the elements or members i, i + 1, ... of v, one per line
StringifyItems(v, i, depth) ==
    LET item == Indent(depth)
                  \o (IF v.t = "obj" THEN Quote(v.k[i]) \o <<":", " ">> ELSE << >>)
                  \o Stringify(v.a[i], depth)
    IN  IF i = Len(v.a) THEN item
        ELSE item \o <<",", "\n">> \o StringifyItems(v, i + 1, depth)

Stringify(v, depth) ==
    CASE v.t = "num" -> NumChars(v.n)
      [] v.t = "str" -> Quote(v.s)
      [] v.t = "arr" ->
            IF Len(v.a) = 0 THEN <<"[", "]">>
            ELSE <<"[", "\n">> \o StringifyItems(v, 1, depth + 1)
                   \o <<"\n">> \o Indent(depth) \o <<"]">>
      [] v.t = "obj" ->
            IF Len(v.a) = 0 THEN <<"{", "}">>
            ELSE <<"{", "\n">> \o StringifyItems(v, 1, depth + 1)
                   \o <<"\n">> \o Indent(depth) \o <<"}">>

JsonStringify(v) == Stringify(v, 0)

Parsed(v, next) == [ok |-> TRUE, v |-> v, next |-> next]

\* JSON.parse throws
Unparsed == [ok |-> FALSE, v |-> JNum(0), next |-> 0]

IsWs(c) == c \in {" ", "\n"}

RECURSIVE SkipWs(_, _)
SkipWs(cs, i) == IF i <= Len(cs) /\ IsWs(cs[i]) THEN SkipWs(cs, i + 1) ELSE i

RECURSIVE ParseDigits(_, _, _)
ParseDigits(cs, i, acc) ==
    IF i <= Len(cs) /\ IsDigit(cs[i])
    THEN ParseDigits(cs, i + 1, acc * 10 + DigitValue(cs[i]))
    ELSE Parsed(JNum(acc), i)

ParseNumber(cs, i) ==
    IF cs[i] = "-"
    THEN IF i + 1 <= Len(cs) /\ IsDigit(cs[i + 1])
         THEN LET r == ParseDigits(cs, i + 1, 0) IN Parsed(JNum(-r.v.n), r.next)
         ELSE Unparsed
    ELSE ParseDigits(cs, i, 0)

\* the characters of a string literal, from the one after the opening quote
RECURSIVE ParseChars(_, _, _)
ParseChars(cs, i, acc) ==
    IF i > Len(cs) THEN Unparsed
    ELSE IF cs[i] = "\"" THEN Parsed(JStr(acc), i + 1)
    ELSE IF cs[i] = "\\"
         THEN IF i + 1 > Len(cs) THEN Unparsed
              ELSE IF cs[i + 1] = "n" THEN ParseChars(cs, i + 2, Append(acc, "\n"))
              ELSE IF cs[i + 1] \in {"\"", "\\"}
                   THEN ParseChars(cs, i + 2, Append(acc, cs[i + 1]))
              ELSE Unparsed
    ELSE IF cs[i] = "\n" THEN Unparsed
    ELSE ParseChars(cs, i + 1, Append(acc, cs[i]))

RECURSIVE ParseValue(_, _)
RECURSIVE ParseElements(_, _, _)
RECURSIVE ParseMembers(_, _, _, _)
\* the elements of an array, from the character after "[" or after ","
ParseElements(cs, i, acc) ==
    LET j == SkipWs(cs, i)
    IN  IF j <= Len(cs) /\ cs[j] = "]" /\ acc = << >> THEN Parsed(JArr(<< >>), j + 1)
        ELSE LET r == ParseValue(cs, j)
                 m == SkipWs(cs, r.next)
             IN  IF ~r.ok \/ m > Len(cs) THEN Unparsed
                 ELSE IF cs[m] = "," THEN ParseElements(cs, m + 1, Append(acc, r.v))
                 ELSE IF cs[m] = "]" THEN Parsed(JArr(Append(acc, r.v)), m + 1)
                 ELSE Unparsed

\* the members of an object, from the character after "{" or after ","
ParseMembers(cs, i, keys, vals) ==
    LET j == SkipWs(cs, i)
    IN  IF j <= Len(cs) /\ cs[j] = "}" /\ keys = << >>
        THEN Parsed(JObj(<< >>, << >>), j + 1)
        ELSE IF j > Len(cs) \/ cs[j] # "\"" THEN Unparsed
        ELSE LET key == ParseChars(cs, j + 1, << >>)
                 c == SkipWs(cs, key.next)
             IN  IF ~key.ok \/ c > Len(cs) \/ cs[c] # ":" THEN Unparsed
                 ELSE LET r == ParseValue(cs, c + 1)
                          m == SkipWs(cs, r.next)
                      IN  IF ~r.ok \/ m > Len(cs) THEN Unparsed
                          ELSE IF cs[m] = ","
                               THEN ParseMembers(cs, m + 1, Append(keys, key.v.s),
                                                 Append(vals, r.v))
                          ELSE IF cs[m] = "}"
                               THEN Parsed(JObj(Append(keys, key.v.s),
                                                Append(vals, r.v)), m + 1)
                          ELSE Unparsed

ParseValue(cs, i0) ==
    LET i == SkipWs(cs, i0)
    IN  IF i > Len(cs) THEN Unparsed
        ELSE IF cs[i] = "\"" THEN ParseChars(cs, i + 1, << >>)
        ELSE IF cs[i] = "[" THEN ParseElements(cs, i + 1, << >>)
        ELSE IF cs[i] = "{" THEN ParseMembers(cs, i + 1, << >>, << >>)
        ELSE IF cs[i] = "-" \/ IsDigit(cs[i]) THEN ParseNumber(cs, i)
        ELSE Unparsed

JsonParse(cs) ==
    LET r == ParseValue(cs, 1)
    IN  IF r.ok /\ SkipWs(cs, r.next) > Len(cs) THEN r ELSE Unparsed

\* whether the object v has a member named key, and the value of that member
HasMember(v, key) == v.t = "obj" /\ \E i \in 1..Len(v.k) : v.k[i] = key

Member(v, key) == v.a[CHOOSE i \in 1..Len(v.k) : v.k[i] = key]

\* string[] and number[][] as JSON values, and back
StringsToJson(ss) == JArr([i \in 1..Len(ss) |-> JStr(ss[i])])

NumbersToJson(ns) == JArr([i \in 1..Len(ns) |-> JNum(ns[i])])

VectorsToJson(vs) == JArr([i \in 1..Len(vs) |-> NumbersToJson(vs[i])])

JsonToStrings(v) == [i \in 1..Len(v.a) |-> v.a[i].s]

JsonToNumbers(v) == [i \in 1..Len(v.a) |-> v.a[i].n]

JsonToVectors(v) == [i \in 1..Len(v.a) |-> JsonToNumbers(v.a[i])]

\* writeFileSync(path, string): UTF-8. The one character above U+007F of
\* the model, U+00E9, is written "E9" and takes the two bytes C3 A9.
Utf8Char(c) == IF c = "E9" THEN <<"C3", "A9">> ELSE <<c>>

Utf8Encode(s) == Flatten([i \in 1..Len(s) |-> Utf8Char(s[i])])

\* what byte i of bs decodes to: the lead byte C3 followed by A9 gives
\* U+00E9, that A9 gives nothing more, and a C3 or A9 found elsewhere is
\* not valid UTF-8 and gives U+FFFD
Utf8At(bs, i) ==
    IF bs[i] = "C3"
    THEN IF i < Len(bs) /\ bs[i + 1] = "A9" THEN <<"E9">> ELSE <<"FFFD">>
    ELSE IF bs[i] = "A9"
         THEN IF i > 1 /\ bs[i - 1] = "C3" THEN << >> ELSE <<"FFFD">>
    ELSE <<bs[i]>>

\* readFileSync(path, 'utf8')
Utf8Decode(bs) == Flatten([i \in 1..Len(bs) |-> Utf8At(bs, i)])

(***************************************************************************)
(* Specification of DocumentStore (src/src/models/documentStore.ts) and    *)
(* of the remove command of the CLI (src/src/cli.ts), which runs on the    *)
(* store of its process. A document is held with the vectors of its index. *)
(* disk maps a path below the storage directory to the files there, and    *)
(* the path << >> is the storage directory itself; a file maps to its      *)
(* bytes. Every write succeeds.                                            *)
(***************************************************************************)
MaxStoreOps == 3     \* most calls and commands made on a store

LowerCase == <<"a", "b", "c", "d", "e", "f", "g", "h", "i", "j", "k", "l", "m",
               "n", "o", "p", "q", "r", "s", "t", "u", "v", "w", "x", "y", "z">>
UpperCase == <<"A", "B", "C", "D", "E", "F", "G", "H", "I", "J", "K", "L", "M",
               "N", "O", "P", "Q", "R", "S", "T", "U", "V", "W", "X", "Y", "Z">>

IsLower(c) == \E i \in 1..Len(LowerCase) : LowerCase[i] = c

IsUpper(c) == \E i \in 1..Len(UpperCase) : UpperCase[i] = c

ToLowerCase(c) ==
    IF IsUpper(c) THEN LowerCase[CHOOSE i \in 1..Len(UpperCase) : UpperCase[i] = c]
    ELSE c

\* fileName.replace(/[^a-z0-9]/gi, '_').toLowerCase()
SanitizeFileName(fileName) ==
    [i \in 1..Len(fileName) |->
        IF IsLower(fileName[i]) \/ IsUpper(fileName[i]) \/ IsDigit(fileName[i])
        THEN ToLowerCase(fileName[i])
        ELSE "_"]

\* document names: empty, two that differ in case only, one with no letter
Names == {<< >>, <<"a">>, <<"A">>, <<".">>}

Docs ==
    { [text |-> << >>, chunks |-> << >>, vectors |-> << >>],
      [text |-> <<"a", "\n", "\n", "E9">>, chunks |-> <<<<"a">>, <<"E9">>>>,
       vectors |-> <<<<1, 0>>, <<0, 1>>>>],
      [text |-> <<"\"", "\\">>, chunks |-> <<<<"\"", "\\">>>>,
       vectors |-> <<<<-1, 10>>>>] }

DocFiles == {"metadata.json", "content.txt", "chunks.json", "vectors.json"}

\* Map.set and Map.delete, and the same on directories
Put(map, key, val) ==
    [x \in DOMAIN map \cup {key} |-> IF x = key THEN val ELSE map[x]]

Delete(map, key) == [x \in DOMAIN map \ {key} |-> map[x]]

\* new Date().toISOString(): written, never read back
Timestamp == <<"T">>

Metadata(name, doc) ==
    JObj(<< <<"n", "a", "m", "e">>,
            <<"c", "h", "u", "n", "k", "C", "o", "u", "n", "t">>,
            <<"t", "e", "x", "t", "L", "e", "n", "g", "t", "h">>,
            <<"t", "i", "m", "e", "s", "t", "a", "m", "p">> >>,
         <<JStr(name), JNum(Len(doc.chunks)), JNum(Len(doc.text)), JStr(Timestamp)>>)

\* fs.writeFileSync(path.join(docDir, file), content), docDir made if missing
WriteFile(d, docDir, file, content) ==
    Put(d, docDir,
        Put(IF docDir \in DOMAIN d THEN d[docDir] ELSE EmptyMap, file,
            Utf8Encode(content)))

SaveDocument(d, name, doc) ==
    LET docDir == SanitizeFileName(name)
        d1 == WriteFile(d, docDir, "metadata.json", JsonStringify(Metadata(name, doc)))
        d2 == WriteFile(d1, docDir, "content.txt", doc.text)
        d3 == WriteFile(d2, docDir, "chunks.json", JsonStringify(StringsToJson(doc.chunks)))
    IN  WriteFile(d3, docDir, "vectors.json", JsonStringify(VectorsToJson(doc.vectors)))

\* fs.readFileSync(path.join(docDir, file), 'utf8')
ReadFile(d, docDir, file) == Utf8Decode(d[docDir][file])

\* a directory entry of the storage directory that loadDocuments turns
\* into a document: its four files exist and the three JSON files parse
\* (a metadata.json that saveDocument wrote has a name)
Loadable(d, docDir) ==
    /\ docDir # << >>
    /\ DocFiles \subseteq DOMAIN d[docDir]
    /\ JsonParse(ReadFile(d, docDir, "metadata.json")).ok
    /\ HasMember(JsonParse(ReadFile(d, docDir, "metadata.json")).v, <<"n", "a", "m", "e">>)
    /\ JsonParse(ReadFile(d, docDir, "chunks.json")).ok
    /\ JsonParse(ReadFile(d, docDir, "vectors.json")).ok

LoadedName(d, docDir) ==
    Member(JsonParse(ReadFile(d, docDir, "metadata.json")).v, <<"n", "a", "m", "e">>).s

LoadedDocument(d, docDir) ==
    [text |-> ReadFile(d, docDir, "content.txt"),
     chunks |-> JsonToStrings(JsonParse(ReadFile(d, docDir, "chunks.json")).v),
     vectors |-> JsonToVectors(JsonParse(ReadFile(d, docDir, "vectors.json")).v)]

\* the Map loadDocuments fills. Two directories never hold one name: the
\* name of a document fixes its directory.
LoadDocuments(d) ==
    LET dirs == {docDir \in DOMAIN d : Loadable(d, docDir)}
        names == {LoadedName(d, docDir) : docDir \in dirs}
    IN  [n \in names |->
            LoadedDocument(d, CHOOSE docDir \in dirs : LoadedName(d, docDir) = n)]

\* fs.rmSync(docDir, { recursive: true, force: true }) when docDir exists;
\* docDir is the storage directory itself when the sanitized name is empty
RemoveDir(d, docDir) == IF docDir = << >> THEN EmptyMap ELSE Delete(d, docDir)

\* a removal by directory: every document saved in the directory of name
\* leaves the Map
RemovalByDirectory(docs, d, name) ==
    IF name \notin DOMAIN docs
    THEN [returned |-> FALSE, documents |-> docs, disk |-> d]
    ELSE [returned |-> TRUE,
          documents |-> [x \in {y \in DOMAIN docs :
                                  SanitizeFileName(y) # SanitizeFileName(name)}
                           |-> docs[x]],
          disk |-> RemoveDir(d, SanitizeFileName(name))]

\* removeDocument(name) on the Map docs and the disk d
Removal(docs, d, name) ==
    IF name \notin DOMAIN docs
    THEN [returned |-> FALSE, documents |-> docs, disk |-> d]
    ELSE [returned |-> TRUE, documents |-> Delete(docs, name),
          disk |-> RemoveDir(d, SanitizeFileName(name))]

\* getDocument(name): this.documents.get(name)
Undefined == [text |-> "undefined"]

GetDocument(docs, name) == IF name \in DOMAIN docs THEN docs[name] ELSE Undefined

\* listDocuments(): the keys of the Map, as a set
ListDocuments(docs) == DOMAIN docs

StoreOp(op, name, confirmed, outcome) ==
    [op |-> op, name |-> name, confirmed |-> confirmed, outcome |-> outcome]

StorePcs == {"store", "addDocument", "removeDocument", "removeCommand", "newStore",
             "addCommand", "restart"}

\* new DocumentStore() on a storage directory that does not exist yet
StoreInit ==
    /\ pc = "store"
    /\ documents = EmptyMap
    /\ disk = EmptyMap
    /\ fresh = EmptyMap
    /\ storeOp = NoOp
    /\ storeOps = 0
    /\ removeCalls = 0
    /\ addCalls = 0
    /\ embedFailed = 0
    /\ ChunkIdle
    /\ IndexIdle
    /\ StepIdle
    /\ EmbedIdle
    /\ CallIdle

AddDocument(name, doc) ==
    /\ pc \in StorePcs /\ storeOps < MaxStoreOps
    /\ documents' = Put(documents, name, doc)
    /\ disk' = SaveDocument(disk, name, doc)
    /\ storeOp' = StoreOp("addDocument", name, FALSE, "saved")
    /\ storeOps' = storeOps + 1
    /\ addCalls' = addCalls + 1
    /\ pc' = "addDocument"
    /\ UNCHANGED <<fresh, removeCalls, embedFailed>>
    /\ UNCHANGED <<chunkVars, indexVars, stepVars, embedVars, callVars>>

RemoveDocument(name) ==
    /\ pc \in StorePcs /\ storeOps < MaxStoreOps
    /\ LET r == Removal(documents, disk, name)
       IN  /\ documents' = r.documents
           /\ disk' = r.disk
           /\ storeOp' = StoreOp("removeDocument", name, FALSE,
                                 IF r.returned THEN "true" ELSE "false")
    /\ removeCalls' = removeCalls + 1
    /\ storeOps' = storeOps + 1
    /\ pc' = "removeDocument"
    /\ UNCHANGED <<fresh, addCalls, embedFailed>>
    /\ UNCHANGED <<chunkVars, indexVars, stepVars, embedVars, callVars>>

\* the confirmation taken as given whatever was answered
ConfirmedAnyway(answer) == TRUE

\* if (confirmAnswer.confirmRemoval)
Confirmed(answer) == answer

\* the remove command: nameOption is options.name (<< >> when not given),
\* selected the document picked from the list prompt, answer the reply to
\* the confirmation prompt
RemoveCommand(nameOption, selected, answer) ==
    /\ pc \in StorePcs /\ storeOps < MaxStoreOps
    /\ selected \in DOMAIN documents \cup {<< >>}
    /\ LET docToRemove == IF nameOption = << >> THEN selected ELSE nameOption
           r == Removal(documents, disk, docToRemove)
       IN  IF DOMAIN documents = {}
           THEN /\ storeOp' = StoreOp("removeCommand", nameOption, FALSE, "noDocuments")
                /\ UNCHANGED <<documents, disk, removeCalls>>
           ELSE IF nameOption = << >> /\ selected \notin DOMAIN documents
           THEN FALSE
           ELSE IF nameOption # << >> /\ nameOption \notin DOMAIN documents
           THEN /\ storeOp' = StoreOp("removeCommand", nameOption, FALSE, "notFound")
                /\ UNCHANGED <<documents, disk, removeCalls>>
           ELSE IF Confirmed(answer)
           THEN /\ documents' = r.documents
                /\ disk' = r.disk
                /\ removeCalls' = removeCalls + 1
                /\ storeOp' = StoreOp("removeCommand", docToRemove, answer,
                                      IF r.returned THEN "removed" ELSE "failed")
           ELSE /\ storeOp' = StoreOp("removeCommand", docToRemove, answer, "cancelled")
                /\ UNCHANGED <<documents, disk, removeCalls>>
    /\ storeOps' = storeOps + 1
    /\ pc' = "removeCommand"
    /\ UNCHANGED <<fresh, addCalls, embedFailed>>
    /\ UNCHANGED <<chunkVars, indexVars, stepVars, embedVars, callVars>>

\* new DocumentStore() on the same storage directory
NewStore ==
    /\ pc \in StorePcs /\ storeOps < MaxStoreOps
    /\ fresh' = LoadDocuments(disk)
    /\ storeOps' = storeOps + 1
    /\ pc' = "newStore"
    /\ UNCHANGED <<documents, disk, storeOp, removeCalls, addCalls, embedFailed>>
    /\ UNCHANGED <<chunkVars, indexVars, stepVars, embedVars, callVars>>

StoreNext ==
    \/ \E name \in Names, doc \in Docs : AddDocument(name, doc)
    \/ \E name \in Names : RemoveDocument(name)
    \/ \E nameOption \in Names, selected \in Names, answer \in BOOLEAN :
          RemoveCommand(nameOption, selected, answer)
    \/ NewStore

SpecStore == StoreInit /\ [][StoreNext]_vars

(***************************************************************************)
(* Specification of the commands of the CLI (src/src/cli.ts) that change   *)
(* the store: add and remove, each run by a process that has built its     *)
(* DocumentStore from the storage directory. A process may be killed       *)
(* while saveDocument is between two of its file writes; the next process  *)
(* builds its store from what is on disk.                                  *)
(***************************************************************************)
\* names the add command accepts: options.name, or the answer to a prompt
\* that refuses a blank name
CliNames == Names \ {<< >>}
CliTexts == {<< >>, <<"a">>, <<"a", "\n", "\n", "b">>}
CliChunkSizes == {1}

\* every request answered, the failed ones left out of the result
EmbedAllSkippingFailed(cs, failing) ==
    Ok([i \in 1..(IF failing = 0 THEN Len(cs) ELSE Len(cs) - 1) |->
           Response(cs[IF failing = 0 \/ i < failing THEN i ELSE i + 1])])

\* await Promise.all(chunks.map(chunk => getTextEmbedding(chunk))): rejected
\* when the request of chunk number failing fails (failing = 0: none does)
EmbedAll(cs, failing) ==
    IF failing # 0 THEN Thrown
    ELSE Ok([i \in 1..Len(cs) |-> Response(cs[i])])

\* saveDocument stopped after its first written file writes
SaveInterrupted(d, name, doc, written) ==
    LET docDir == SanitizeFileName(name)
        d1 == WriteFile(d, docDir, "metadata.json", JsonStringify(Metadata(name, doc)))
        d2 == WriteFile(d1, docDir, "content.txt", doc.text)
        d3 == WriteFile(d2, docDir, "chunks.json", JsonStringify(StringsToJson(doc.chunks)))
    IN  IF written = 1 THEN d1 ELSE IF written = 2 THEN d2 ELSE d3

\* the add command: name, the text read, options.chunkSize, and the request
\* that fails
AddCommand(name, t, size, failing) ==
    /\ pc \in StorePcs /\ storeOps < MaxStoreOps
    /\ LET cs == ChunkText(t, size)
           textEmbeddings == EmbedAll(cs, failing)
           doc == [text |-> t, chunks |-> cs, vectors |-> textEmbeddings.value]
       IN  /\ failing \in 0..Len(cs)
           /\ IF textEmbeddings.kind = "throw"
              THEN /\ storeOp' = StoreOp("addCommand", name, FALSE, "error")
                   /\ UNCHANGED <<documents, disk, addCalls>>
              ELSE /\ documents' = Put(documents, name, doc)
                   /\ disk' = SaveDocument(disk, name, doc)
                   /\ addCalls' = addCalls + 1
                   /\ storeOp' = StoreOp("addCommand", name, FALSE, "added")
    /\ embedFailed' = failing
    /\ storeOps' = storeOps + 1
    /\ pc' = "addCommand"
    /\ UNCHANGED <<fresh, removeCalls>>
    /\ UNCHANGED <<chunkVars, indexVars, stepVars, embedVars, callVars>>

\* the add command in a process killed when saveDocument has written the
\* first written of its four files; the store of the process is gone
AddCommandKilled(name, t, size, written) ==
    /\ pc \in StorePcs /\ storeOps < MaxStoreOps
    /\ LET cs == ChunkText(t, size)
           textEmbeddings == EmbedAll(cs, 0)
           doc == [text |-> t, chunks |-> cs, vectors |-> textEmbeddings.value]
       IN  disk' = SaveInterrupted(disk, name, doc, written)
    /\ documents' = EmptyMap
    /\ addCalls' = addCalls + 1
    /\ embedFailed' = 0
    /\ storeOp' = StoreOp("addCommand", name, FALSE, "killed")
    /\ storeOps' = storeOps + 1
    /\ pc' = "killed"
    /\ UNCHANGED <<fresh, removeCalls>>
    /\ UNCHANGED <<chunkVars, indexVars, stepVars, embedVars, callVars>>

\* the next run of the CLI: const documentStore = new DocumentStore()
Restart ==
    /\ pc \in StorePcs \cup {"killed"} /\ storeOps < MaxStoreOps
    /\ documents' = LoadDocuments(disk)
    /\ storeOp' = StoreOp("restart", << >>, FALSE, "loaded")
    /\ storeOps' = storeOps + 1
    /\ pc' = "restart"
    /\ UNCHANGED <<disk, fresh, removeCalls, addCalls, embedFailed>>
    /\ UNCHANGED <<chunkVars, indexVars, stepVars, embedVars, callVars>>

\* the chunk the query command reads at an index search returned
UndefinedChunk == <<"undefined">>

\* the query command on one document: indices.map(i => document.chunks[i])
RetrievedChunks(doc, q, numChunks) ==
    LET indices == Search(doc.vectors, q, numChunks)
    IN  IF indices.kind = "throw" THEN << >>
        ELSE [i \in 1..Len(indices.value) |->
                 IF indices.value[i] + 1 \in 1..Len(doc.chunks)
                 THEN doc.chunks[indices.value[i] + 1]
                 ELSE UndefinedChunk]

CliNext ==
    \/ \E name \in CliNames, t \in CliTexts, size \in CliChunkSizes, failing \in 0..2 :
          AddCommand(name, t, size, failing)
    \/ \E name \in CliNames, t \in CliTexts, size \in CliChunkSizes, written \in 1..3 :
          AddCommandKilled(name, t, size, written)
    \/ \E nameOption \in Names, selected \in Names, answer \in BOOLEAN :
          RemoveCommand(nameOption, selected, answer)
    \/ Restart

SpecCli == StoreInit /\ [][CliNext]_vars

(***************************************************************************)
(* The specifications taken together.                                      *)
(***************************************************************************)
Init ==
    \/ ChunkInit \/ SearchInit \/ IndexInit \/ RepeatInit
    \/ StepInit \/ EmbedInit \/ StoreInit

Next ==
    \/ ChunkNext \/ SearchNext \/ IndexNext \/ ListNext \/ RepeatNext
    \/ StepNext \/ EmbedNext \/ StoreNext \/ CliNext

Spec == Init /\ [][Next]_vars

(***************************************************************************)
(* Properties of chunkText, checked under SpecChunk.                       *)
(***************************************************************************)
Returned == pc = "returned"

RECURSIVE Concat(_)
Concat(ss) == IF ss = << >> THEN << >> ELSE Head(ss) \o Concat(Tail(ss))

RECURSIVE Join(_, _)
Join(ss, sep) ==
    IF ss = << >> THEN << >>
    ELSE IF Len(ss) = 1 THEN ss[1]
    ELSE ss[1] \o sep \o Join(Tail(ss), sep)

NotSpace(c) == ~IsSpace(c)
NonSpace(s) == SelectSeq(s, NotSpace)
HasSpace(s) == \E i \in 1..Len(s) : IsSpace(s[i])
HasTerminator(s) == \E i \in 1..Len(s) : IsTerminator(s[i])
HasParagraphBreak(s) == \E i \in 1..Len(s) : ParagraphBreakEnd(s, i) # 0
Occurrences(ss, x) == Cardinality({i \in 1..Len(ss) : ss[i] = x})

RECURSIVE DropLeadingEmpty(_)
DropLeadingEmpty(ss) ==
    IF ss # << >> /\ Head(ss) = << >> THEN DropLeadingEmpty(Tail(ss)) ELSE ss

\* C1: for non-empty text and positive chunkSize the chunks, joined in
\* order, hold exactly the non-separator characters of the text, in order
\* (separators, i.e. whitespace, are disregarded on both sides).
C1_ContentPreserved ==
    (Returned /\ text # << >> /\ chunkSize > 0)
        => NonSpace(Concat(chunks)) = NonSpace(text)

\* C2: for positive chunkSize every returned chunk that is not a single
\* whitespace-free word has length <= chunkSize, inserted separators counted.
C2_ChunksWithinSize ==
    (Returned /\ chunkSize > 0)
        => \A i \in 1..Len(chunks) :
              HasSpace(chunks[i]) => Len(chunks[i]) <= chunkSize

\* C5: for positive chunkSize every whitespace-delimited word of the text
\* longer than chunkSize is a chunk of its own, once per occurrence.
C5_LongWordsIntact ==
    (Returned /\ chunkSize > 0)
        => LET words == SplitWords(text)
           IN  \A i \in 1..Len(words) :
                  Len(words[i]) > chunkSize
                      => Occurrences(chunks, words[i]) = Occurrences(words, words[i])

\* C6 as stated: a non-empty text with text.length <= chunkSize comes back
\* as exactly one chunk equal to the text.
C6_FitsIsIdentity ==
    (Returned /\ text # << >> /\ Len(text) <= chunkSize) => chunks = <<text>>

\* C6 as amended: a non-empty text with text.length <= chunkSize comes back
\* as at most one chunk; it is the text itself when the text has no
\* blank-line separator, and otherwise the paragraphs of the text, leading
\* empty ones dropped, joined by "\n\n" (no chunk when nothing is left).
C6_FitsIsNormalized ==
    (Returned /\ text # << >> /\ Len(text) <= chunkSize)
        => /\ Len(chunks) <= 1
           /\ ~HasParagraphBreak(text) => chunks = <<text>>
           /\ LET ps == DropLeadingEmpty(SplitParagraphs(text))
              IN  chunks = IF ps = << >> THEN << >> ELSE <<Join(ps, <<"\n", "\n">>)>>

C6_Witness ==
    /\ Returned /\ text # << >> /\ Len(text) <= chunkSize
    /\ HasParagraphBreak(text)
    /\ Len(chunks) = 1 /\ chunks # <<text>>

\* C10: a call with chunkSize <= 0 does not return a chunk list: it is
\* rejected (throws) before processing.
C10_NonPositiveRejected ==
    (pc # "call" /\ chunkSize <= 0) => pc = "thrown"

NonEmpty(s) == s # << >>

RECURSIVE ParagraphsOf(_)
ParagraphsOf(cs) ==
    IF cs = << >> THEN << >> ELSE SplitParagraphs(Head(cs)) \o ParagraphsOf(Tail(cs))

AllParagraphsFit ==
    \A i \in 1..Len(SplitParagraphs(text)) : Len(SplitParagraphs(text)[i]) <= chunkSize

\* C13: when every blank-line-separated paragraph of the text has length
\* <= chunkSize, the paragraphs found in the successive chunks are exactly
\* the (non-empty) paragraphs of the text, each once and in their order:
\* none is split, lost, repeated or moved.
C13_ParagraphsKeptWhole ==
    (Returned /\ AllParagraphsFit)
        => SelectSeq(ParagraphsOf(chunks), NonEmpty)
              = SelectSeq(SplitParagraphs(text), NonEmpty)

C13_Witness ==
    /\ Returned /\ AllParagraphsFit
    /\ Len(SplitParagraphs(text)) = 2
    /\ Len(chunks) = 2
    /\ HasSpace(chunks[1])

\* C16: chunkText("", chunkSize) returns the empty list, whatever chunkSize
\* is, and does not throw.
C16_EmptyTextNoChunks ==
    (pc # "call" /\ text = << >>) => (pc = "returned" /\ chunks = << >>)

C16_Witness ==
    /\ Returned /\ text = << >> /\ chunkSize < 0 /\ chunks = << >>

\* the text that follows the last terminator of s (all of s without one)
RECURSIVE Residual(_)
Residual(s) ==
    IF s = << >> \/ IsTerminator(s[Len(s)]) THEN << >>
    ELSE Append(Residual(SubSeq(s, 1, Len(s) - 1)), s[Len(s)])

IsInfix(x, s) ==
    \E i \in 0..(Len(s) - Len(x)) : SubSeq(s, i + 1, i + Len(x)) = x

\* C18: the text that follows the last '.', '!' or '?' of a paragraph longer
\* than chunkSize is kept as a sentence: its characters appear, in order, in
\* the returned chunks.
C18_ResidualKept ==
    (Returned /\ chunkSize > 0)
        => \A i \in 1..Len(SplitParagraphs(text)) :
              LET p == SplitParagraphs(text)[i]
              IN  Len(p) > chunkSize
                    => IsInfix(NonSpace(Residual(p)), NonSpace(Concat(chunks)))

OnlySeparators(s) ==
    s # << >> /\ \A i \in 1..Len(SplitParagraphs(s)) : SplitParagraphs(s)[i] = << >>

\* C30: every chunk chunkText returns has at least one character, for every
\* text and every chunkSize; a text made of blank-line separators only
\* gives no chunk.
C30_NoEmptyChunk ==
    Returned
        => /\ \A i \in 1..Len(chunks) : Len(chunks[i]) >= 1
           /\ OnlySeparators(text) => chunks = << >>

\* a paragraph handed to the sentence loop with the accumulator empty, after
\* an empty first paragraph, and chunks returned
C30_Witness ==
    /\ Returned /\ chunkSize = 1
    /\ Len(SplitParagraphs(text)) = 2 /\ SplitParagraphs(text)[1] = << >>
    /\ Len(chunks) = 2

(***************************************************************************)
(* Properties of the loops of chunkText, checked under SpecChunkSteps.     *)
(***************************************************************************)
\* the iterations taken one at a time return what the call returns
StepsReturnChunkText == Returned => chunks = ChunkText(text, chunkSize)

Below(level) == IF level = "paragraph" THEN "sentence" ELSE "word"

\* C28: every call of chunkText returns, for every text and chunkSize
\* (chunkSize smaller than every word, zero and negative included), and
\* each paragraph, sentence and word is visited once: an iteration takes
\* the first unit left off the units to visit, puts in its place only the
\* units of the loop below it (none for a word), and leaves the rest alone.
C28_Terminates ==
    /\ [][(pc = "looping" /\ todo # << >>)
            => LET n == Len(todo') - Len(todo) + 1
               IN  /\ n >= 0
                   /\ SubSeq(todo', n + 1, Len(todo')) = Tail(todo)
                   /\ n > 0 => Head(todo).level # "word"
                   /\ \A i \in 1..n : todo'[i].level = Below(Head(todo).level)]_vars
    /\ <>(pc = "returned")

\* returned with chunkSize smaller than each of the two words of the text
C28_Witness ==
    /\ Returned /\ chunkSize <= 0
    /\ lastStep.level = "word"
    /\ Len(chunks) = 2
    /\ \A i \in 1..2 : Len(chunks[i]) > chunkSize /\ ~HasSpace(chunks[i])

(***************************************************************************)
(* Properties of getEmbeddingsWithProgress, checked under SpecEmbed.       *)
(***************************************************************************)
\* C11: in both versions, the array returned for a list of chunks has one
\* vector per chunk, and vector i is the answer to the request made for
\* chunk i, in whatever order the requests outstanding together settled.
C11_OneVectorPerChunkInOrder ==
    pc = "embedded"
        => /\ Len(embeddings) = Len(input)
           /\ \A i \in 1..Len(input) : embeddings[i] = Response(input[i])

\* two batches returned, a later request having settled before an earlier
\* one for a different chunk
C11_Witness ==
    /\ pc = "embedded" /\ variant = "batched" /\ outOfOrder
    /\ Len(input) > BatchSize
    /\ input[1] # input[2]
    /\ Len(embeddings) = Len(input)
    /\ embeddings[1] = Response(input[1])

(***************************************************************************)
(* Properties of DocumentStore and of the remove command, checked under    *)
(* SpecStore.                                                              *)
(***************************************************************************)
\* stringify then parse gives the value back, for the values the store writes
JsonRoundTrip ==
    \A doc \in Docs :
        /\ JsonToStrings(JsonParse(JsonStringify(StringsToJson(doc.chunks))).v) = doc.chunks
        /\ JsonToVectors(JsonParse(JsonStringify(VectorsToJson(doc.vectors))).v) = doc.vectors
        /\ Utf8Decode(Utf8Encode(doc.text)) = doc.text

\* C12: when the last call made on a store is addDocument(name, text,
\* chunks, index), a DocumentStore constructed next on the same storage
\* directory holds a document of that name whose text, chunks and vectors
\* are the saved ones, in the same order.
C12_PersistenceRoundTrip ==
    (pc = "newStore" /\ storeOp.op = "addDocument")
        => /\ storeOp.name \in DOMAIN fresh
           /\ fresh[storeOp.name] = documents[storeOp.name]

\* the same for names that are not empty
NamedDocumentsRoundTrip ==
    (pc = "newStore" /\ storeOp.op = "addDocument" /\ storeOp.name # << >>)
        => /\ storeOp.name \in DOMAIN fresh
           /\ fresh[storeOp.name] = documents[storeOp.name]

\* C21: a DocumentStore constructed on the storage directory of a store
\* loads exactly the documents that store holds, each with its text, chunks
\* and vectors, after any calls of addDocument and removeDocument.
C21_MemoryDiskAgreement ==
    pc = "newStore" => fresh = documents

\* C27: removeDocument(name) returns false and leaves the Map and the
\* storage directory as they were when name is not in the store; when it is,
\* the call returns true, getDocument(name) is then undefined and
\* listDocuments is without name, and getDocument and listDocuments return
\* every other document as before.
C27_RemoveDocumentFrame ==
    [][pc' = "removeDocument"
         => LET name == storeOp'.name
            IN  IF name \notin ListDocuments(documents)
                THEN /\ storeOp'.outcome = "false"
                     /\ documents' = documents
                     /\ disk' = disk
                ELSE /\ storeOp'.outcome = "true"
                     /\ GetDocument(documents', name) = Undefined
                     /\ ListDocuments(documents') = ListDocuments(documents) \ {name}
                     /\ \A other \in ListDocuments(documents) \ {name} :
                           GetDocument(documents', other)
                               = GetDocument(documents, other)]_vars

\* a document removed while another one saved in the same directory stays
C27_Witness ==
    /\ pc = "removeDocument" /\ storeOp.outcome = "true"
    /\ storeOp.name \notin DOMAIN documents
    /\ \E other \in DOMAIN documents :
          SanitizeFileName(other) = SanitizeFileName(storeOp.name)

\* C17: a run of the remove command in which the confirmation is declined,
\* or the document named is not in the store, does not call removeDocument
\* and leaves the Map of the store and the storage directory as they were.
C17_RemoveOnlyWhenConfirmed ==
    [][(storeOp'.op = "removeCommand" /\ storeOps' # storeOps
          /\ (~storeOp'.confirmed \/ storeOp'.name \notin DOMAIN documents))
         => /\ documents' = documents
            /\ disk' = disk
            /\ removeCalls' = removeCalls]_vars

\* the removal of a stored document was declined
C17_Witness ==
    /\ pc = "removeCommand"
    /\ storeOp.outcome = "cancelled" /\ ~storeOp.confirmed
    /\ storeOp.name \in DOMAIN documents
    /\ SanitizeFileName(storeOp.name) \in DOMAIN disk
    /\ removeCalls = 0

(***************************************************************************)
(* Properties of VectorIndex.search and searchWithScores, checked under    *)
(* SpecSearch. Distances are compared through their squares, which are     *)
(* exact integers.                                                         *)
(***************************************************************************)
Stored == Deref(vectors)
N == Len(vectors)

SquaredDistance(a, b) ==
    LET f[i \in 0..Len(a)] ==
            IF i = 0 THEN 0 ELSE f[i - 1] + (a[i] - b[i]) * (a[i] - b[i])
    IN  f[Len(a)]

\* squared distance from the query to the stored vector of 0-based index ix
Far(ix) == SquaredDistance(queryVector, Stored[ix + 1])

SameDimension == \A i \in 1..N : Len(Stored[i]) = Len(queryVector)
StoredDimension(d) == \A i \in 1..N : Len(Stored[i]) = d

\* the index at position i of the returned list, of either method
IndexAt(i) == IF pc = "scored" THEN result.value[i].index ELSE result.value[i]
ReturnedIndices == {IndexAt(i) : i \in 1..Len(result.value)}

\* C3: for n stored vectors, a query of their dimension and k >= 0, search
\* returns exactly min(k, n) indices, in non-decreasing distance, and no
\* vector left out is strictly closer than a returned one.
C3_SearchNearest ==
    (pc = "searched" /\ k >= 0 /\ SameDimension)
        => /\ result.kind = "ok"
           /\ Len(result.value) = Min(k, N)
           /\ \A i \in 1..Len(result.value) : result.value[i] \in 0..(N - 1)
           /\ \A i, j \in 1..Len(result.value) :
                 i < j => Far(result.value[i]) <= Far(result.value[j])
           /\ \A o \in (0..(N - 1)) \ ReturnedIndices :
                 \A i \in 1..Len(result.value) : ~(Far(o) < Far(result.value[i]))

C3_Witness ==
    /\ pc = "searched" /\ SameDimension
    /\ N = 3 /\ k = 2
    /\ result = Ok(<<2, 0>>)
    /\ Far(2) < Far(0) /\ Far(0) < Far(1)

\* C4: on a non-empty index whose vectors all have dimension d, search and
\* searchWithScores with a query of another length throw, whatever k is,
\* and return nothing.
C4_MismatchThrows ==
    (pc \in {"searched", "scored"} /\ N > 0
        /\ \E d \in Dims : StoredDimension(d) /\ Len(queryVector) # d)
        => result = Thrown

C4_Witness ==
    /\ pc = "scored" /\ N = 2 /\ k = 0
    /\ StoredDimension(2) /\ Len(queryVector) = 1
    /\ result.kind = "throw"

\* C7 as stated: the scores returned by searchWithScores are strictly
\* decreasing from one position to the next.
C7_ScoresStrictlyDecreasing ==
    (pc = "scored" /\ result.kind = "ok")
        => \A i \in 1..(Len(result.value) - 1) :
              result.value[i].score > result.value[i + 1].score

\* C7 as amended: the scores are non-increasing from one position to the
\* next, in ascending-distance order (a farther vector never gets a higher
\* score than a nearer one); vectors at the same distance get the same score.
C7_ScoresNonIncreasing ==
    (pc = "scored" /\ result.kind = "ok")
        => \A i, j \in 1..Len(result.value) :
              /\ i < j => /\ Far(IndexAt(i)) <= Far(IndexAt(j))
                          /\ result.value[i].score >= result.value[j].score
              /\ Far(IndexAt(i)) = Far(IndexAt(j))
                    => result.value[i].score = result.value[j].score

C7_Witness ==
    /\ pc = "scored" /\ result.kind = "ok" /\ Len(result.value) = 3
    /\ result.value[1].score > result.value[2].score
    /\ result.value[2].score = result.value[3].score

\* C8: vectors at the same distance from the query are returned in
\* ascending insertion index, and when the cut falls inside a group of
\* ties the lower indices are the ones returned.
C8_TiesByInsertionOrder ==
    (pc \in {"searched", "scored"} /\ result.kind = "ok")
        => /\ \A i, j \in 1..Len(result.value) :
                 (i < j /\ Far(IndexAt(i)) = Far(IndexAt(j)))
                     => IndexAt(i) < IndexAt(j)
           /\ \A o \in (0..(N - 1)) \ ReturnedIndices :
                 \A i \in 1..Len(result.value) :
                     Far(o) = Far(IndexAt(i)) => IndexAt(i) < o

C8_Witness ==
    /\ pc = "searched" /\ SameDimension /\ N = 3 /\ k = 1
    /\ Far(0) > Far(1) /\ Far(1) = Far(2)
    /\ result = Ok(<<1>>)

\* C14: searchWithScores returns the indices search returns for the same
\* query and k, position by position (and throws when search throws), and
\* each score is 1 / (1 + distance) of its index: in fixed point, the
\* largest s with s * (1 + d) <= 1.
C14_ScoresFollowSearch ==
    pc = "scored"
        => LET plain == Search(Stored, queryVector, k)
           IN  /\ result.kind = plain.kind
               /\ Len(result.value) = Len(plain.value)
               /\ \A i \in 1..Len(result.value) :
                     LET d == Sqrt(Far(plain.value[i]))
                         sc == result.value[i].score
                     IN  /\ result.value[i].index = plain.value[i]
                         /\ sc * (Prec + d) <= Prec * Prec
                         /\ (sc + 1) * (Prec + d) > Prec * Prec

C14_Witness ==
    /\ pc = "scored" /\ result.kind = "ok" /\ N = 3 /\ k = 2
    /\ result.value[1].index = 2 /\ result.value[2].index = 0
    /\ result.value[1].score > result.value[2].score

\* C15: on an index built from no vector, search and searchWithScores
\* return the empty list for every query, of any length, and every k, and
\* do not throw.
C15_EmptyIndexEmptyResult ==
    (pc \in {"searched", "scored"} /\ N = 0) => result = Ok(<< >>)

C15_Witness ==
    /\ pc = "scored" /\ N = 0 /\ Len(queryVector) = 2 /\ k = 2
    /\ result = Ok(<< >>)

MixedDimensions == \E i, j \in 1..N : Len(Stored[i]) # Len(Stored[j])

\* C20: on an index whose vectors do not all have the same length, every
\* search and searchWithScores call throws the dimension error, whatever
\* the query and k: no result is computed from a cut or padded vector.
C20_MixedIndexAlwaysThrows ==
    (pc \in {"searched", "scored"} /\ MixedDimensions) => result = Thrown

C20_Witness ==
    /\ pc = "searched" /\ MixedDimensions /\ N = 2 /\ k = 0
    /\ Len(queryVector) = Len(Stored[1])
    /\ result = Thrown

\* C26: for every k, zero and negative included, search and
\* searchWithScores return at most max(k, 0) entries.
C26_AtMostK ==
    (pc \in {"searched", "scored"} /\ result.kind = "ok")
        => Len(result.value) <= Max(k, 0)

\* C29: for a query of the dimension of the n stored vectors and every k,
\* search returns indices that lie in 0..n-1 and are pairwise distinct.
C29_IndicesDistinctInRange ==
    (pc = "searched" /\ SameDimension)
        => /\ result.kind = "ok"
           /\ \A i \in 1..Len(result.value) : result.value[i] \in 0..(N - 1)
           /\ \A i, j \in 1..Len(result.value) :
                 i # j => result.value[i] # result.value[j]

\* every index of a three-vector index returned, not in insertion order
C29_Witness ==
    /\ pc = "searched" /\ SameDimension
    /\ N = 3 /\ k = N + 1
    /\ result.kind = "ok" /\ Len(result.value) = 3
    /\ result.value[1] # 0
    /\ ReturnedIndices = {0, 1, 2}

(***************************************************************************)
(* Properties of getVectors, checked under SpecIndex.                      *)
(***************************************************************************)
GotOps == {"gotPush", "gotPop", "gotReplace", "gotSetComponent"}

\* C9: no mutation made through the value getVectors returned changes the
\* vectors the index holds (which are all a later search reads).
C9_GetVectorsIsolated ==
    [][pc' \in GotOps => Stored' = Stored]_vars

(***************************************************************************)
(* Properties of the list given to the constructor, checked under          *)
(* SpecList.                                                               *)
(***************************************************************************)
\* C23: no mutation of the list passed to the constructor changes the
\* vectors the index holds, which are what getVectors copies and what
\* search reads.
C23_ReadOnlyAfterConstruction ==
    [][pc' \in ListOps => Stored' = Stored]_vars

(***************************************************************************)
(* Properties of repeated searches, checked under SpecRepeat.              *)
(***************************************************************************)
SameAsFirstCall ==
    /\ firstCall.method = pc
    /\ firstCall.queryVector = queryVector
    /\ firstCall.k = k

CliQueries == {<<1, 0>>, <<0, 1>>}
CliNumChunks == {1, 2}

\* C22: in the store of every process, each document has as many vectors as
\* chunks, and every chunk the query command retrieves from it is a chunk of
\* the document.
C22_ChunksMatchVectors ==
    \A name \in DOMAIN documents :
        /\ Len(documents[name].chunks) = Len(documents[name].vectors)
        /\ \A q \in CliQueries, numChunks \in CliNumChunks :
              \A i \in DOMAIN RetrievedChunks(documents[name], q, numChunks) :
                  RetrievedChunks(documents[name], q, numChunks)[i] # UndefinedChunk

\* C24: a run of the add command in which the embedding of a chunk fails
\* does not call addDocument, leaves the Map of the store and the storage
\* directory as they were, and reports the error.
C24_EmbeddingFailureStoresNothing ==
    [][(pc' = "addCommand" /\ embedFailed' # 0)
         => /\ addCalls' = addCalls
            /\ documents' = documents
            /\ disk' = disk
            /\ storeOp'.outcome = "error"]_vars

\* the second of two embeddings failed, in a store that holds a document
C24_Witness ==
    /\ pc = "addCommand" /\ embedFailed = 2
    /\ storeOp.outcome = "error"
    /\ DOMAIN documents # {}
    /\ storeOp.name \notin DOMAIN documents

====
